---- MODULE Spec2Model ----
(***************************************************************************)
(* Model of src/src/daily_qt.py: the daily devotional bot.                 *)
(*                                                                         *)
(*   main -> get_todays_reference -> fetch_english_text ->                 *)
(*           fetch_korean_text -> post_to_discord (chunk_verses_by_size)   *)
(*                                                                         *)
(* Python values are modelled as follows.  A str is a TLA+ string (Len,    *)
(* \o and SubSeq act on it character by character).  A value whose Python  *)
(* type the code inspects (isinstance, truthiness of None) is a record    *)
(* with the fields type, elem, s, strs, dicts:                             *)
(*   type "None"                          None                             *)
(*   type "str",  s = the string           a bare str                      *)
(*   type "list", elem "str",  strs        a list of str                   *)
(*   type "list", elem "dict", dicts       a list of {"num", "text"} dicts *)
(* The fields a value does not use are empty; the empty list is tagged     *)
(* elem "dict".                                                            *)
(***************************************************************************)
EXTENDS Integers, Sequences, FiniteSets, TLC

VARIABLES
    pc,          \* position of the run inside main() / the chunker call
    today,       \* datetime.now(), as the strings its strftime calls give
    data,        \* sheet.get_all_records(): the rows of the reference store
    ref,         \* main(): ref
    eng_page,    \* what requests.get gave fetch_english_text
    kor_page,    \* what requests.get gave fetch_korean_text
    eng_verses,  \* main(): eng_verses / chunk_verses_by_size(): verses
    kor_verses,  \* main(): kor_verses
    eng_chunks,  \* post_to_discord(): eng_chunks
    kor_chunks,  \* post_to_discord(): kor_chunks
    payload,     \* post_to_discord(): payload handed to requests.post
    posts,       \* number of requests.post calls on the webhook
    fetches,     \* number of requests.get calls on the scripture page
    log          \* what main() and post_to_discord() print

vars == <<pc, today, data, ref, eng_page, kor_page, eng_verses, kor_verses,
          eng_chunks, kor_chunks, payload, posts, fetches, log>>

(***************************************************************************)
(* Bounds of the model and constants of the program.                       *)
(***************************************************************************)
MaxVerses == 3
MaxRows == 2

DefaultMaxSize == 1024
TruncMargin == 50
FallbackMinLen == 100

None == [type |-> "None", elem |-> "", s |-> "", strs |-> <<>>, dicts |-> <<>>]
PyStr(x) == [type |-> "str", elem |-> "", s |-> x, strs |-> <<>>, dicts |-> <<>>]
PyStrList(xs) ==
    [type |-> "list", elem |-> "str", s |-> "", strs |-> xs, dicts |-> <<>>]
PyDictList(xs) ==
    [type |-> "list", elem |-> "dict", s |-> "", strs |-> <<>>, dicts |-> xs]

\* bool(x) of a str-or-None value (None and "" are falsy)
Truthy(x) == x.type = "str" /\ x.s /= ""
\* len(x) of a list value
PyLen(x) == IF x.elem = "str" THEN Len(x.strs) ELSE Len(x.dicts)

(***************************************************************************)
(* Strings.                                                                *)
(***************************************************************************)
SeqsUpTo(S, n) == UNION { [1..k -> S] : k \in 0..n }

Min(a, b) == IF a < b THEN a ELSE b
Max(a, b) == IF a > b THEN a ELSE b

RECURSIVE Rep(_, _)
Rep(c, n) ==
    IF n = 0 THEN ""
    ELSE IF n % 2 = 0 THEN LET h == Rep(c, n \div 2) IN h \o h
    ELSE c \o Rep(c, n - 1)

\* s[i] for a 1-based index i
CharAt(s, i) == SubSeq(s, i, i)

\* s[:n]
PySlice(s, n) ==
    IF n >= 0 THEN SubSeq(s, 1, Min(n, Len(s)))
    ELSE SubSeq(s, 1, Max(0, Len(s) + n))

\* s.startswith(p)
StartsWith(s, p) == Len(s) >= Len(p) /\ SubSeq(s, 1, Len(p)) = p

\* " ".join(xs)
RECURSIVE JoinSp(_)
JoinSp(xs) ==
    IF Len(xs) = 0 THEN ""
    ELSE IF Len(xs) = 1 THEN xs[1]
    ELSE xs[1] \o " " \o JoinSp(Tail(xs))

(***************************************************************************)
(* chunk_verses_by_size                                                    *)
(***************************************************************************)
\* f"**{verse['num']}** {verse['text']}"
Render(verse) == "**" \o verse.num \o "** " \o verse.text

TestChunk(current_chunk, verse_text) ==
    IF current_chunk /= "" THEN current_chunk \o " " \o verse_text
    ELSE verse_text

\* Mutant of Exceeds: the bound compared with >= instead of >.
ExceedsOffByOne(test_chunk, max_size) == Len(test_chunk) >= max_size

Exceeds(test_chunk, max_size) == Len(test_chunk) > max_size

Truncate(verse_text, max_size) ==
    PySlice(verse_text, max_size - TruncMargin) \o "..."

\* Mutant of ChunkStep: closing the current chunk forgets to start the next
\* one with the verse that did not fit.
ChunkStepDropsVerse(acc, verse, max_size) ==
    LET verse_text == Render(verse)
        test_chunk == TestChunk(acc[2], verse_text)
    IN  IF Exceeds(test_chunk, max_size)
        THEN IF acc[2] /= ""
             THEN <<Append(acc[1], acc[2]), "">>
             ELSE <<Append(acc[1], Truncate(verse_text, max_size)), "">>
        ELSE <<acc[1], test_chunk>>

\* One iteration of the for loop; acc is <<chunks, current_chunk>>.
ChunkStep(acc, verse, max_size) ==
    LET chunks == acc[1]
        current_chunk == acc[2]
        verse_text == Render(verse)
        test_chunk == TestChunk(current_chunk, verse_text)
    IN  IF Exceeds(test_chunk, max_size)
        THEN IF current_chunk /= ""
             THEN <<Append(chunks, current_chunk), verse_text>>
             ELSE <<Append(chunks, Truncate(verse_text, max_size)), "">>
        ELSE <<chunks, test_chunk>>

RECURSIVE ChunkLoop(_, _, _, _)
ChunkLoop(vs, i, acc, max_size) ==
    IF i > Len(vs) THEN acc
    ELSE ChunkLoop(vs, i + 1, ChunkStep(acc, vs[i], max_size), max_size)

\* Mutant of ChunkFinish: "return chunks" without the placeholder.
ChunkFinishNoPlaceholder(acc) ==
    IF acc[2] /= "" THEN Append(acc[1], acc[2]) ELSE acc[1]

\* The code after the loop: add the last chunk, never return an empty list.
ChunkFinish(acc) ==
    LET chunks == IF acc[2] /= "" THEN Append(acc[1], acc[2]) ELSE acc[1]
    IN  IF Len(chunks) > 0 THEN chunks ELSE <<"Error: No text to display">>

chunk_verses_by_size(verses, max_size) ==
    IF verses.type = "str" THEN <<verses.s>>
    ELSE IF PyLen(verses) > 0 /\ verses.elem = "str" THEN verses.strs
    ELSE ChunkFinish(ChunkLoop(verses.dicts, 1, <<<<>>, "">>, max_size))

(***************************************************************************)
(* Text clean-up of the scrapers (the re.sub calls and str.strip).  The    *)
(* recursive operators halve the index range, so that their depth is the   *)
(* logarithm of the string's length.                                       *)
(***************************************************************************)
Lower == {"a","b","c","d","e","f","g","h","i","j","k","l","m",
          "n","o","p","q","r","s","t","u","v","w","x","y","z"}
Upper == {"A","B","C","D","E","F","G","H","I","J","K","L","M",
          "N","O","P","Q","R","S","T","U","V","W","X","Y","Z"}
Digits == {"0","1","2","3","4","5","6","7","8","9"}
IsSpace(c) == c \in {" ", "\t", "\n", "\r"}

\* a match of \[[a-zA-Z]\] starts at i
FootnoteAt(s, i) ==
    /\ i >= 1 /\ i + 2 <= Len(s)
    /\ CharAt(s, i) = "["
    /\ CharAt(s, i + 1) \in Lower \cup Upper
    /\ CharAt(s, i + 2) = "]"

RECURSIVE SubFootnotes(_, _, _)
SubFootnotes(s, lo, hi) ==
    IF lo > hi THEN ""
    ELSE IF lo = hi
         THEN IF \E i \in {lo - 2, lo - 1, lo} : FootnoteAt(s, i)
              THEN "" ELSE CharAt(s, lo)
    ELSE LET mid == (lo + hi) \div 2
         IN  SubFootnotes(s, lo, mid) \o SubFootnotes(s, mid + 1, hi)

\* re.sub(r'\[[a-zA-Z]\]', '', text): two matches never overlap, so every
\* character inside a match is dropped.
RemoveFootnotes(text) == SubFootnotes(text, 1, Len(text))

\* a match of \([A-Z]\) starts at i
CrossrefAt(s, i) ==
    /\ i >= 1 /\ i + 2 <= Len(s)
    /\ CharAt(s, i) = "("
    /\ CharAt(s, i + 1) \in Upper
    /\ CharAt(s, i + 2) = ")"

RECURSIVE SubCrossrefs(_, _, _)
SubCrossrefs(s, lo, hi) ==
    IF lo > hi THEN ""
    ELSE IF lo = hi
         THEN IF CrossrefAt(s, lo) THEN " "
              ELSE IF CrossrefAt(s, lo - 1) \/ CrossrefAt(s, lo - 2) THEN ""
              ELSE CharAt(s, lo)
    ELSE LET mid == (lo + hi) \div 2
         IN  SubCrossrefs(s, lo, mid) \o SubCrossrefs(s, mid + 1, hi)

\* re.sub(r'\([A-Z]\)', ' ', text)
ReplaceCrossrefs(text) == SubCrossrefs(text, 1, Len(text))

RECURSIVE SubSpaces(_, _, _)
SubSpaces(s, lo, hi) ==
    IF lo > hi THEN ""
    ELSE IF lo = hi
         THEN IF ~IsSpace(CharAt(s, lo)) THEN CharAt(s, lo)
              ELSE IF lo > 1 /\ IsSpace(CharAt(s, lo - 1)) THEN ""
              ELSE " "
    ELSE LET mid == (lo + hi) \div 2
         IN  SubSpaces(s, lo, mid) \o SubSpaces(s, mid + 1, hi)

\* re.sub(r'\s+', ' ', text)
CollapseSpaces(text) == SubSpaces(text, 1, Len(text))

\* the first index from i on that holds no white space (Len(s) + 1 if none)
RECURSIVE FirstInk(_, _)
FirstInk(s, i) ==
    IF i > Len(s) \/ ~IsSpace(CharAt(s, i)) THEN i ELSE FirstInk(s, i + 1)

\* the last index up to i that holds no white space (0 if none)
RECURSIVE LastInk(_, _)
LastInk(s, i) ==
    IF i < 1 \/ ~IsSpace(CharAt(s, i)) THEN i ELSE LastInk(s, i - 1)

\* text.strip()
Strip(text) == SubSeq(text, FirstInk(text, 1), LastInk(text, Len(text)))

(***************************************************************************)
(* The scripture page.  A response of requests.get is a record             *)
(*   raises   requests.get or the parse raised an Exception, str(e) = exc  *)
(*   status   response.status_code                                         *)
(*   match    the container selectors that find a div in the page          *)
(*   spans    passage_container.find_all('span', class_='text'): for each  *)
(*            span its sup.versenum text (None when it has none) and the   *)
(*            text get_text(strip=True) gives once the sup elements the    *)
(*            fetcher decomposes are gone                                  *)
(*   alltext  passage_container.get_text(separator=' ', strip=True) once   *)
(*            the headings are decomposed                                  *)
(* The selectors are those of the code, in its order; "passage*" stands    *)
(* for the lambda that looks for 'passage' in the class attribute.         *)
(***************************************************************************)
Span(n, t) == [versenum |-> n, text |-> t]
Page(r, e, st, m, sp, all) ==
    [raises |-> r, exc |-> e, status |-> st, match |-> m, spans |-> sp,
     alltext |-> all]

\* no request made yet
NoPage == Page(FALSE, "", 0, {}, <<>>, "")

EnglishSelectors == <<"passage-col", "passage*">>
KoreanSelectors == <<"passage-col", "passage-content", "passages", "passage*">>

\* The first selector of the list that finds a container; 0 when none does.
FindContainer(selectors, page) ==
    LET hits == {i \in 1..Len(selectors) : selectors[i] \in page.match}
    IN  IF hits = {} THEN 0 ELSE CHOOSE i \in hits : \A j \in hits : i <= j

\* lines 84-88: the clean-up of one English verse
CleanEnglish(text) ==
    Strip(CollapseSpaces(ReplaceCrossrefs(RemoveFootnotes(text))))

\* line 175: the clean-up of one Korean verse
CleanKorean(text) == RemoveFootnotes(text)

RECURSIVE ExtractEnglish(_, _, _)
ExtractEnglish(spans, i, verses_data) ==
    IF i > Len(spans) THEN verses_data
    ELSE LET span == spans[i]
             text == CleanEnglish(span.text)
         IN  IF span.versenum.type /= "None" /\ text /= ""
             THEN ExtractEnglish(spans, i + 1,
                      Append(verses_data, [num |-> span.versenum.s, text |-> text]))
             ELSE ExtractEnglish(spans, i + 1, verses_data)

RECURSIVE ExtractKorean(_, _, _)
ExtractKorean(spans, i, verses_data) ==
    IF i > Len(spans) THEN verses_data
    ELSE LET span == spans[i]
             text == CleanKorean(span.text)
         IN  IF span.versenum.type /= "None" /\ text /= ""
             THEN ExtractKorean(spans, i + 1,
                      Append(verses_data, [num |-> span.versenum.s, text |-> text]))
             ELSE ExtractKorean(spans, i + 1, verses_data)

\* line 97: the container was found and no span gave a verse
EnglishNoVerses(page) == PyStrList(<<"Error: Could not extract verses">>)

\* line 65
EnglishNoContainer(page) == PyStrList(<<"Error: No passage container found">>)

fetch_english_text(reference, page) ==
    IF page.raises THEN PyStrList(<<"Error: " \o page.exc>>)
    ELSE IF page.status /= 200
    THEN PyStrList(<<"Error: HTTP {response.status_code}">>)
    ELSE IF FindContainer(EnglishSelectors, page) = 0
    THEN EnglishNoContainer(page)
    ELSE LET verses_data == ExtractEnglish(page.spans, 1, <<>>)
         IN  IF Len(verses_data) > 0 THEN PyDictList(verses_data)
             ELSE EnglishNoVerses(page)

\* lines 191-194: the text of the whole container, cleaned
FallbackText(page) == RemoveFootnotes(CollapseSpaces(page.alltext))

\* Mutant of KoreanFallback: the fall-back taken whatever the length.
KoreanFallbackAnyLength(page) ==
    PyDictList(<<[num |-> "1", text |-> FallbackText(page)]>>)

\* lines 184-207: Method B, the container's text as one segment numbered "1"
KoreanFallback(page) ==
    LET text == FallbackText(page)
    IN  IF Len(text) > FallbackMinLen
        THEN PyDictList(<<[num |-> "1", text |-> text]>>)
        ELSE PyStrList(<<"Error: Could not extract passage text">>)

\* Mutant of KoreanNoContainer: the error wrapped in a list.
KoreanNoContainerList(page) == PyStrList(<<"Error: No passage container found">>)

\* line 155
KoreanNoContainer(page) == PyStr("Error: No passage container found")

fetch_korean_text(reference, page) ==
    IF page.raises THEN PyStrList(<<"Error: " \o page.exc>>)
    ELSE IF page.status /= 200
    THEN PyStr("Error: HTTP " \o ToString(page.status))
    ELSE IF FindContainer(KoreanSelectors, page) = 0
    THEN KoreanNoContainer(page)
    ELSE LET verses_data == ExtractKorean(page.spans, 1, <<>>)
         IN  IF Len(verses_data) > 0 THEN PyDictList(verses_data)
             ELSE KoreanFallback(page)

(***************************************************************************)
(* get_todays_reference                                                    *)
(***************************************************************************)
RECURSIVE FirstMatch(_, _, _)
FirstMatch(rows, i, today_str) ==
    IF i > Len(rows) THEN None
    ELSE IF rows[i].Date = today_str THEN PyStr(rows[i].Reference)
    ELSE FirstMatch(rows, i + 1, today_str)

\* Mutant of get_todays_reference: the date of the row is not compared.
get_todays_reference_AnyDate(rows, now) ==
    IF Len(rows) > 0 THEN PyStr(rows[1].Reference) ELSE None

\* The Reference of the first row whose Date is today's, or None.
get_todays_reference(rows, now) == FirstMatch(rows, 1, now.iso)

(***************************************************************************)
(* post_to_discord                                                         *)
(***************************************************************************)
\* urllib.parse.quote of one character (safe = "/"), for the characters a
\* reference is written with
QuoteChar(c) ==
    IF c \in Lower \cup Upper \cup Digits \cup {"_", ".", "-", "~", "/"} THEN c
    ELSE CASE c = " " -> "%20"
           [] c = ":" -> "%3A"
           [] c = "," -> "%2C"
           [] c = ";" -> "%3B"

RECURSIVE QuoteRange(_, _, _)
QuoteRange(s, lo, hi) ==
    IF lo > hi THEN ""
    ELSE IF lo = hi THEN QuoteChar(CharAt(s, lo))
    ELSE LET mid == (lo + hi) \div 2
         IN  QuoteRange(s, lo, mid) \o QuoteRange(s, mid + 1, hi)

quote(reference) == QuoteRange(reference, 1, Len(reference))

Link(reference, version) ==
    "https://www.biblegateway.com/passage/?search=" \o quote(reference)
        \o "&version=" \o version

Field(n, v) == [name |-> n, value |-> v, inline |-> FALSE]

\* Mutant of ChunkFields: a language whose text is an error gets no field.
ChunkFieldsDropErrors(label, chunks) ==
    LET kept == SelectSeq(chunks, LAMBDA c : ~StartsWith(c, "Error"))
    IN  [i \in 1..Len(kept) |-> Field(label, kept[i])]

\* lines 287-302: one field per chunk, "(Part i)" when there are several
ChunkFields(label, chunks) ==
    [i \in 1..Len(chunks) |->
        Field(label \o (IF Len(chunks) > 1
                        THEN " (Part " \o ToString(i) \o ")" ELSE ""),
              chunks[i])]

\* lines 273-302.  The names of the two link fields are written without
\* their flag emoji and Hangul, which a TLA+ string cannot hold.
BuildFields(reference, e_chunks, k_chunks) ==
    << Field("Click here to read in ESV",
             "[Link](" \o Link(reference, "ESV") \o ")"),
       Field("(KOERV)", "[Link](" \o Link(reference, "KOERV") \o ")") >>
    \o ChunkFields("English (ESV)", e_chunks)
    \o ChunkFields("Korean (KOERV)", k_chunks)

\* lines 304-315
BuildPayload(reference, now, fields) ==
    [username |-> "Daily DT Bot",
     thread_name |-> now.md \o " - " \o reference,
     embeds |-> << [title |-> "Daily Bread: " \o reference,
                    color |-> 3066993,
                    fields |-> fields,
                    footer |-> [text |-> "Posted on " \o now.long]] >>]

(***************************************************************************)
(* The environment of a run: the clock, the sheet, the scripture pages and *)
(* the webhook's answers.                                                  *)
(***************************************************************************)
Now(i, m, l) == [iso |-> i, md |-> m, long |-> l]
Clock ==
    { Now("2026-11-02", "11/02", "November 02, 2026"),
      Now("2026-11-03", "11/03", "November 03, 2026") }

Row(d, r) == [Date |-> d, Reference |-> r]
Rows ==
    { Row("2026-11-02", "John 3:16-17"),
      Row("2026-11-02", "Psalm 23"),
      Row("2026-11-03", ""),
      Row("11/4/2026", "Romans 8:1") }

PageHttpError == Page(FALSE, "", 404, {}, <<>>, "")
PageRaises == Page(TRUE, "Connection refused", 0, {}, <<>>, "")
PageNoContainer == Page(FALSE, "", 200, {}, <<>>, "")
PageVerses ==
    Page(FALSE, "", 200, {"passage-col", "passage*"},
         << Span(PyStr("16"), "For God so loved[a] the world,(A)  that he gave"),
            Span(None, "For God So Loved the World"),
            Span(PyStr("17"), "For God did not send his Son") >>,
         "For God So Loved the World 16 For God so loved the world")
PageLongVerse ==
    Page(FALSE, "", 200, {"passage*"},
         << Span(PyStr("1"), "The LORD is my shepherd"),
            Span(PyStr("2"), Rep("x", 1100)) >>,
         "The LORD is my shepherd")
PageNoVersesLong ==
    Page(FALSE, "", 200, {"passage-content", "passage*"},
         << Span(None, "The LORD Is My Shepherd") >>,
         Rep("w", 50) \o "[b]  " \o Rep("v", 50))
PageNoVersesShort ==
    Page(FALSE, "", 200, {"passages", "passage*"},
         << Span(PyStr("1"), "[a]") >>,
         Rep("w", 50) \o "[b]" \o Rep("v", 50))

Pages ==
    { PageHttpError, PageRaises, PageNoContainer, PageVerses, PageLongVerse,
      PageNoVersesLong, PageNoVersesShort }

WebhookStatus == {204, 400}

(***************************************************************************)
(* main: one action per call it makes.                                     *)
(***************************************************************************)
Init ==
    /\ pc = "main"
    /\ today \in Clock
    /\ data \in SeqsUpTo(Rows, MaxRows)
    /\ ref = None
    /\ eng_page = NoPage /\ kor_page = NoPage
    /\ eng_verses = None /\ kor_verses = None
    /\ eng_chunks = <<>> /\ kor_chunks = <<>>
    /\ payload = None /\ posts = 0 /\ fetches = 0 /\ log = <<>>

\* lines 331-335, 339-340: the look-up and the branch on its result
Lookup ==
    /\ pc = "main"
    /\ ref' = get_todays_reference(data, today)
    /\ IF Truthy(ref')
       THEN /\ log' = <<"Checking for today's reading...",
                        "Found reference: " \o ref'.s>>
            /\ pc' = "fetch_english"
       ELSE /\ log' = <<"Checking for today's reading...",
                        "No reading scheduled for today.">>
            /\ pc' = "done"
    /\ UNCHANGED <<today, data, eng_page, kor_page, eng_verses, kor_verses,
                   eng_chunks, kor_chunks, payload, posts, fetches>>

\* lines 21-25: the credentials or the sheet cannot be had; the exception
\* leaves main
LookupRaises ==
    /\ pc = "main"
    /\ log' = <<"Checking for today's reading...">>
    /\ pc' = "aborted"
    /\ UNCHANGED <<today, data, ref, eng_page, kor_page, eng_verses,
                   kor_verses, eng_chunks, kor_chunks, payload, posts, fetches>>

\* line 336
FetchEnglish ==
    /\ pc = "fetch_english"
    /\ \E page \in Pages :
          /\ eng_page' = page
          /\ eng_verses' = fetch_english_text(ref.s, page)
    /\ fetches' = fetches + 1
    /\ pc' = "fetch_korean"
    /\ UNCHANGED <<today, data, ref, kor_page, kor_verses, eng_chunks,
                   kor_chunks, payload, posts, log>>

\* line 337
FetchKorean ==
    /\ pc = "fetch_korean"
    /\ \E page \in Pages :
          /\ kor_page' = page
          /\ kor_verses' = fetch_korean_text(ref.s, page)
    /\ fetches' = fetches + 1
    /\ pc' = "post"
    /\ UNCHANGED <<today, data, ref, eng_page, eng_verses, eng_chunks,
                   kor_chunks, payload, posts, log>>

\* lines 262-315: what post_to_discord builds before it calls the webhook
PostBuilds ==
    /\ eng_chunks' = chunk_verses_by_size(eng_verses, DefaultMaxSize)
    /\ kor_chunks' = chunk_verses_by_size(kor_verses, DefaultMaxSize)
    /\ payload' = BuildPayload(ref.s, today,
                               BuildFields(ref.s, eng_chunks', kor_chunks'))
    /\ posts' = posts + 1

\* line 338: post_to_discord, the webhook answers
PostToDiscord ==
    /\ pc = "post"
    /\ PostBuilds
    /\ \E status_code \in WebhookStatus :
          log' = log \o
              IF status_code \in {200, 204}
              THEN <<"Successfully posted " \o ref.s \o " to Discord.">>
              ELSE <<"Discord webhook failed with status "
                        \o ToString(status_code)>>
    /\ pc' = "done"
    /\ UNCHANGED <<today, data, ref, eng_page, kor_page, eng_verses,
                   kor_verses, fetches>>

\* line 317: requests.post raises (no connection); the exception leaves main
PostRaises ==
    /\ pc = "post"
    /\ PostBuilds
    /\ pc' = "aborted"
    /\ UNCHANGED <<today, data, ref, eng_page, kor_page, eng_verses,
                   kor_verses, fetches, log>>

Next ==
    \/ Lookup
    \/ LookupRaises
    \/ FetchEnglish
    \/ FetchKorean
    \/ PostToDiscord
    \/ PostRaises

Spec == Init /\ [][Next]_vars

(***************************************************************************)
(* The chunker on its own: Init draws the argument, ChunkCall applies the  *)
(* function with the default max_size.                                     *)
(***************************************************************************)
Verse(n, t) == [num |-> n, text |-> t]

VersePool ==
    { Verse("1", "In the beginning"),
      Verse("2", Rep("b", 500)),
      Verse("3", Rep("c", 511)),
      Verse("4", Rep("d", 512)),
      Verse("5", Rep("e", 1018)),
      Verse("6", Rep("f", 1019)) }

ChunkInputs ==
    { PyDictList(vs) : vs \in SeqsUpTo(VersePool, MaxVerses) }
    \cup { PyStr("Error: HTTP 404"),
           PyStrList(<<"Error: No passage container found">>) }

ChunkInit ==
    /\ pc = "chunk_call"
    /\ eng_verses \in ChunkInputs
    /\ today = None /\ data = <<>> /\ ref = None
    /\ eng_page = NoPage /\ kor_page = NoPage
    /\ kor_verses = None
    /\ eng_chunks = <<>> /\ kor_chunks = <<>>
    /\ payload = None /\ posts = 0 /\ fetches = 0 /\ log = <<>>

ChunkCall ==
    /\ pc = "chunk_call"
    /\ eng_chunks' = chunk_verses_by_size(eng_verses, DefaultMaxSize)
    /\ pc' = "chunk_ret"
    /\ UNCHANGED <<today, data, ref, eng_page, kor_page, eng_verses,
                   kor_verses, kor_chunks, payload, posts, fetches, log>>

ChunkNext == ChunkCall

ChunkSpec == ChunkInit /\ [][ChunkNext]_vars

(***************************************************************************)
(* Properties of chunk_verses_by_size, checked under ChunkSpec.            *)
(***************************************************************************)
ChunkReturned == pc = "chunk_ret"
IsVerseList(v) == v.type = "list" /\ v.elem = "dict"
Rendered(v) == [i \in 1..Len(v.dicts) |-> Render(v.dicts[i])]
AllFit(v) == \A i \in 1..Len(v.dicts) : Len(Rendered(v)[i]) <= DefaultMaxSize

\* C1: for every list of verse segments and max_size = 1024, every chunk
\* returned by chunk_verses_by_size has length <= max_size, also when an
\* oversize verse follows verses already packed into the current chunk.
C1_EveryChunkWithinMaxSize ==
    (ChunkReturned /\ IsVerseList(eng_verses)) =>
        \A i \in 1..Len(eng_chunks) : Len(eng_chunks[i]) <= DefaultMaxSize

\* C2: when every rendered verse fits in max_size, no verse is split and
\* the order is kept: each chunk is the space-join of a contiguous block of
\* rendered verses, the blocks follow one another, and the space-join of
\* all chunks is the space-join of all rendered verses.
C2_NoSplitOrderKept ==
    (ChunkReturned /\ IsVerseList(eng_verses) /\ Len(eng_verses.dicts) > 0
        /\ AllFit(eng_verses)) =>
        LET r == Rendered(eng_verses)
        IN  /\ JoinSp(eng_chunks) = JoinSp(r)
            /\ \A i \in 1..Len(eng_chunks) :
                  \E a \in 1..Len(r) : \E b \in a..Len(r) :
                     /\ eng_chunks[i] = JoinSp(SubSeq(r, a, b))
                     /\ JoinSp(SubSeq(eng_chunks, 1, i)) = JoinSp(SubSeq(r, 1, b))

\* Witness of C2: three fitting verses came back as two or more chunks, so
\* some chunk holds several verses and some boundary was drawn.
C2_Witness ==
    /\ ChunkReturned /\ IsVerseList(eng_verses) /\ AllFit(eng_verses)
    /\ Len(eng_verses.dicts) = 3 /\ Len(eng_chunks) = 2

\* C3: every verse whose rendered text exceeds max_size, at whatever
\* position, gets a chunk that is the first max_size - 50 characters of the
\* rendered text followed by "...", of length <= max_size.
C3_OversizeVerseTruncatedAnywhere ==
    (ChunkReturned /\ IsVerseList(eng_verses)) =>
        \A k \in 1..Len(eng_verses.dicts) :
            LET r == Rendered(eng_verses)[k]
            IN  Len(r) > DefaultMaxSize =>
                  \E i \in 1..Len(eng_chunks) :
                     /\ eng_chunks[i] =
                          SubSeq(r, 1, DefaultMaxSize - TruncMargin) \o "..."
                     /\ Len(eng_chunks[i]) <= DefaultMaxSize

\* C9: chunk_verses_by_size never returns an empty list: the empty verse
\* list gives exactly the placeholder chunk, a non-empty verse list gives at
\* least one chunk, and no chunk is the empty string.
C9_NeverEmpty ==
    (ChunkReturned /\ IsVerseList(eng_verses)) =>
        /\ Len(eng_chunks) >= 1
        /\ \A i \in 1..Len(eng_chunks) : eng_chunks[i] /= ""
        /\ Len(eng_verses.dicts) = 0 =>
              eng_chunks = <<"Error: No text to display">>

\* Witness of C9: the chunker returned for the empty verse list.
C9_Witness ==
    /\ ChunkReturned /\ IsVerseList(eng_verses)
    /\ Len(eng_verses.dicts) = 0 /\ Len(eng_chunks) = 1

\* C10: packing is greedy.  When every rendered verse fits, for every two
\* consecutive chunks the first chunk, a space and the first verse of the
\* next chunk together are longer than max_size (verse k is the first verse
\* of chunk i+1 when chunks 1..i hold exactly verses 1..k-1).
C10_Greedy ==
    (ChunkReturned /\ IsVerseList(eng_verses) /\ AllFit(eng_verses)) =>
        LET r == Rendered(eng_verses)
        IN  \A i \in 1..(Len(eng_chunks) - 1) :
              \E k \in 2..Len(r) :
                 /\ JoinSp(SubSeq(eng_chunks, 1, i)) = JoinSp(SubSeq(r, 1, k - 1))
                 /\ StartsWith(eng_chunks[i + 1], r[k])
                 /\ Len(eng_chunks[i]) + 1 + Len(r[k]) > DefaultMaxSize

\* Witness of C10: three fitting verses were packed into two chunks, the
\* first of them filled to exactly max_size by two verses.
C10_Witness ==
    /\ ChunkReturned /\ IsVerseList(eng_verses) /\ AllFit(eng_verses)
    /\ Len(eng_chunks) = 2 /\ Len(eng_chunks[1]) = DefaultMaxSize
    /\ Len(eng_verses.dicts) = 3

(***************************************************************************)
(* Properties of a run of main, checked under Spec.                        *)
(***************************************************************************)
EnglishFetched == pc \in {"fetch_korean", "post"} \/ posts > 0
KoreanFetched == pc = "post" \/ posts > 0
Posted == posts > 0

NoContainerIn(selectors, page) ==
    /\ ~page.raises /\ page.status = 200
    /\ \A i \in 1..Len(selectors) : selectors[i] \notin page.match
ContainerIn(selectors, page) ==
    /\ ~page.raises /\ page.status = 200
    /\ \E i \in 1..Len(selectors) : selectors[i] \in page.match

\* No span of the page has a verse number and a text left after clean-up.
EnglishYieldsNoVerse(page) ==
    \A i \in 1..Len(page.spans) :
        \/ page.spans[i].versenum.type = "None"
        \/ Strip(CollapseSpaces(ReplaceCrossrefs(RemoveFootnotes(
               page.spans[i].text)))) = ""
KoreanYieldsNoVerse(page) ==
    \A i \in 1..Len(page.spans) :
        \/ page.spans[i].versenum.type = "None"
        \/ RemoveFootnotes(page.spans[i].text) = ""

\* A list of exactly one str that begins with "Error"
OneErrorInList(v) ==
    /\ v.type = "list" /\ v.elem = "str"
    /\ Len(v.strs) = 1 /\ StartsWith(v.strs[1], "Error")

\* The fetch of a language failed as the claim lists it: the request or the
\* parse raised, the status was not 200, no container was found, or no
\* verse-numbered span gave a verse.
KoreanFailedAsClaimed ==
    \/ kor_page.raises
    \/ kor_page.status /= 200
    \/ NoContainerIn(KoreanSelectors, kor_page)
    \/ KoreanYieldsNoVerse(kor_page)

\* The fetch of a language failed: as above, where for Korean no verse is
\* extracted only if the fall-back gives none either (the container's text
\* is at most 100 characters long).
EnglishFailed ==
    \/ eng_page.raises
    \/ eng_page.status /= 200
    \/ NoContainerIn(EnglishSelectors, eng_page)
    \/ EnglishYieldsNoVerse(eng_page)
KoreanFailed ==
    \/ kor_page.raises
    \/ kor_page.status /= 200
    \/ NoContainerIn(KoreanSelectors, kor_page)
    \/ /\ KoreanYieldsNoVerse(kor_page)
       /\ Len(RemoveFootnotes(CollapseSpaces(kor_page.alltext)))
             <= FallbackMinLen

\* The values of the payload's fields whose name begins with label
FieldValues(label) ==
    LET fields == payload.embeds[1].fields
        mine == SelectSeq(fields, LAMBDA f : StartsWith(f.name, label))
    IN  [i \in 1..Len(mine) |-> mine[i].value]

\* C4 as claimed: when the fetch of a language fails (an exception, a
\* status other than 200, no container, no verse extracted) the run goes on
\* to POST and the payload holds a text field of that language whose value
\* begins with "Error".
C4_EveryFailurePostedAsError ==
    Posted =>
        /\ EnglishFailed =>
              \E i \in 1..Len(FieldValues("English (ESV)")) :
                 StartsWith(FieldValues("English (ESV)")[i], "Error")
        /\ KoreanFailedAsClaimed =>
              \E i \in 1..Len(FieldValues("Korean (KOERV)")) :
                 StartsWith(FieldValues("Korean (KOERV)")[i], "Error")

\* C4 as amended: the same, where a Korean fetch that extracts no numbered
\* verse fails only if the container's cleaned text is at most 100
\* characters long (a longer text is posted as the segment "1").  The run
\* goes on to build and POST the message, the payload holds a text field of
\* the failed language whose value begins with "Error", and the fields of
\* the other language hold its chunks.
C4_FetchFailurePosted ==
    /\ (pc \in {"fetch_korean", "post"}) => ENABLED Next
    /\ (pc = "done" /\ Truthy(ref)) => Posted
    /\ Posted =>
         /\ FieldValues("English (ESV)") = eng_chunks
         /\ FieldValues("Korean (KOERV)") = kor_chunks
         /\ Len(eng_chunks) >= 1 /\ Len(kor_chunks) >= 1
         /\ EnglishFailed =>
              \E i \in 1..Len(FieldValues("English (ESV)")) :
                 StartsWith(FieldValues("English (ESV)")[i], "Error")
         /\ KoreanFailed =>
              \E i \in 1..Len(FieldValues("Korean (KOERV)")) :
                 StartsWith(FieldValues("Korean (KOERV)")[i], "Error")
         /\ ~EnglishFailed => StartsWith(eng_chunks[1], "**")
         /\ ~KoreanFailed => StartsWith(kor_chunks[1], "**")

\* Witness of C4: the English fetch got a non-200 status, the Korean fetch
\* gave verses, and the message was posted with both.
C4_Witness ==
    /\ pc = "done" /\ Posted
    /\ eng_page.status = 404 /\ ~KoreanFailed
    /\ StartsWith(FieldValues("English (ESV)")[1], "Error")
    /\ FieldValues("Korean (KOERV)")
         = <<"**16** For God so loved the world,(A)  that he gave "
               \o "**17** For God did not send his Son">>

NoRowMatchesToday == \A i \in 1..Len(data) : data[i].Date /= today.iso

\* C5: the webhook is POSTed at most once in a run, and when no row of the
\* reference store matches today's date the run logs "No reading scheduled
\* for today." and ends without any text fetch or webhook call.
C5_AtMostOnePostNoneWithoutRow ==
    /\ posts <= 1
    /\ (pc \in {"done", "aborted"}) => ~ENABLED Next
    /\ NoRowMatchesToday => (posts = 0 /\ fetches = 0)
    /\ (NoRowMatchesToday /\ pc \notin {"main", "aborted"}) =>
         /\ pc = "done"
         /\ log[Len(log)] = "No reading scheduled for today."

\* Witness of C5: the store has rows, none for today, and the run is over.
C5_Witness ==
    /\ pc = "done" /\ Len(data) = MaxRows /\ NoRowMatchesToday
    /\ posts = 0 /\ fetches = 0

\* C6: every field of the assembled message has a value of at most 1024
\* characters.
C6_EveryFieldWithinLimit ==
    Posted =>
        \A i \in 1..Len(payload.embeds[1].fields) :
            Len(payload.embeds[1].fields[i].value) <= DefaultMaxSize

\* C7 as claimed: with status 200 and no container for any selector, each
\* fetcher returns a list of exactly one element, which begins with "Error".
C7_OneErrorSegmentBothFetchers ==
    /\ (EnglishFetched /\ NoContainerIn(EnglishSelectors, eng_page)) =>
          OneErrorInList(eng_verses)
    /\ (KoreanFetched /\ NoContainerIn(KoreanSelectors, kor_page)) =>
          OneErrorInList(kor_verses)

\* C7 as amended: fetch_english_text returns a list of exactly one string
\* that begins with "Error"; fetch_korean_text returns one bare string that
\* begins with "Error", not a list; the chunker makes exactly one chunk,
\* beginning with "Error", of either.
C7_OneErrorListOrBareString ==
    /\ (EnglishFetched /\ NoContainerIn(EnglishSelectors, eng_page)) =>
          /\ OneErrorInList(eng_verses)
          /\ Posted => (Len(eng_chunks) = 1 /\ StartsWith(eng_chunks[1], "Error"))
    /\ (KoreanFetched /\ NoContainerIn(KoreanSelectors, kor_page)) =>
          /\ kor_verses.type = "str" /\ StartsWith(kor_verses.s, "Error")
          /\ Posted => (Len(kor_chunks) = 1 /\ StartsWith(kor_chunks[1], "Error"))

\* Witness of C7: both fetches found no container, and the run has posted.
C7_Witness ==
    /\ Posted
    /\ NoContainerIn(EnglishSelectors, eng_page)
    /\ NoContainerIn(KoreanSelectors, kor_page)
    /\ eng_chunks = <<"Error: No passage container found">>
    /\ kor_chunks = <<"Error: No passage container found">>

EnglishNoVerseCase ==
    /\ EnglishFetched /\ ContainerIn(EnglishSelectors, eng_page)
    /\ EnglishYieldsNoVerse(eng_page)
KoreanNoVerseCase ==
    /\ KoreanFetched /\ ContainerIn(KoreanSelectors, kor_page)
    /\ KoreanYieldsNoVerse(kor_page)

\* A list of exactly one segment, not an error
OneSegment(v) == v.type = "list" /\ v.elem = "dict" /\ Len(v.dicts) = 1

\* C8 as claimed: when the container is found and no verse-numbered span
\* yields a segment, the fetcher of either language returns the text of the
\* container as a single segment, whatever its length, not an error.
C8_FallbackBothLanguagesAnyLength ==
    /\ EnglishNoVerseCase => OneSegment(eng_verses)
    /\ KoreanNoVerseCase => OneSegment(kor_verses)

\* C8 as amended: in that case fetch_korean_text returns the container's
\* text (whitespace collapsed, footnote markers removed) as a single segment
\* numbered "1" when that text is longer than 100 characters, and the list
\* ["Error: Could not extract passage text"] otherwise; fetch_english_text
\* has no fall-back and returns ["Error: Could not extract verses"].
C8_KoreanFallbackOver100Only ==
    /\ EnglishNoVerseCase =>
          eng_verses = PyStrList(<<"Error: Could not extract verses">>)
    /\ KoreanNoVerseCase =>
          LET text == RemoveFootnotes(CollapseSpaces(kor_page.alltext))
          IN  IF Len(text) > FallbackMinLen
              THEN kor_verses = PyDictList(<<[num |-> "1", text |-> text]>>)
              ELSE kor_verses =
                     PyStrList(<<"Error: Could not extract passage text">>)

\* Witness of C8: the Korean fetch fell back to the container's text, 101
\* characters once cleaned, and the English fetch of a page with a container
\* and no verse gave its error.
C8_Witness ==
    /\ KoreanNoVerseCase /\ EnglishNoVerseCase
    /\ kor_verses = PyDictList(<<[num |-> "1",
                                  text |-> Rep("w", 50) \o " " \o Rep("v", 50)]>>)
    /\ eng_verses.elem = "str"

====
